---- MODULE Spec2Model ----
(***************************************************************************)
(* A model of the accel crate's context, memory and module layer:          *)
(*   src/accel/src/device.rs       Device, Context, ContextGuard           *)
(*   src/accel/src/memory/mod.rs   MemoryType, trait Memory                *)
(*   src/accel/src/memory/host.rs  PageLockedMemory, copy_to_host          *)
(*   src/accel/src/module.rs       Module, Kernel, Launchable              *)
(*                                                                         *)
(* The native driver is modelled by its observable state: one current-     *)
(* context stack per thread, the set of live context handles, and one      *)
(* unified address space.  Every native call may report a failure.         *)
(***************************************************************************)
EXTENDS Integers, Sequences, FiniteSets, TLC

(* ------------------------------ bounds -------------------------------- *)

\* number of distinct native context handles
NumCtx == 2
\* number of ContextGuards a thread holds at once
MaxDepth == 2
\* number of cells of the unified address space
HeapSize == 3
\* largest element count of a memory object
MaxLen == 2
\* number of memory objects alive at once
MaxObjects == 2
\* largest number of devices the driver reports
MaxDevices == 2
\* number of shared handles of one Context the program holds at once
MaxHandles == 2
\* number of bits of usize, scaled down from 64: the products of a usize wrap
\* in the same way at every width
UsizeBits == 8

\* std::mem::size_of::<i32>(), the element type of the tests
SizeOfElem == 4
\* the largest tuple impl_kernel_parameters! is invoked for
MaxArity == 12

Ctxs == 1..NumCtx
\* the null CUcontext / Option::None
NoCtx == 0
Addr == 0..(HeapSize - 1)
\* the element values told apart
Vals == {0, 1}
Threads == {"t1", "t2"}
\* the device indices asked for: every valid one and two beyond
DeviceIds == 0..(MaxDevices + 1)

\* pub enum MemoryType
MemoryType == {"Host", "Registered", "PageLocked", "Device", "Array"}

(* ------------------------------ state --------------------------------- *)

VARIABLES
  stack,      \* stack[t]: the native current-context stack of thread t (top = last)
  guards,     \* guards[t]: the live ContextGuards of thread t, in order of acquisition
  panicked,   \* panicked[t]: thread t is unwinding from a panic and runs no more
  contexts,   \* the live Context values (their native handles)
  modules,    \* the loaded Modules: [module, context]
  objects,    \* the allocated memory objects: [ptr, size, kind, context]
  mem,        \* the unified address space: Addr -> Vals
  nested,     \* nested[t]: t has released its guards last-acquired-first so far
  driver,     \* the driver's process-wide state: the Once of Device::init, the
              \* number of times the native init has been invoked, the number
              \* of devices, and the contexts with a device-side fault
  last,       \* the last operation: its name, operands, result and native calls
  pc,         \* pc[t]: where thread t stands inside Device::get_count or
              \* Device::nth, and the Device it holds
  arcs        \* arcs[c]: the Arc<Context> handles of Context c that the program
              \* holds outside memory objects; whether a memory object of c has
              \* gone without its native free; the native destroys of c so far

vars ==
  <<stack, guards, panicked, contexts, modules, objects, mem, nested, driver, last, pc,
    arcs>>

(* ------------------------------ helpers ------------------------------- *)

Top(s) == IF s = <<>> THEN NoCtx ELSE s[Len(s)]
Front(s) == SubSeq(s, 1, Len(s) - 1)
Remove(s, i) == SubSeq(s, 1, i - 1) \o SubSeq(s, i + 1, Len(s))

\* a memory operand that is absent
NoObj == [ptr |-> 0, size |-> 0, kind |-> "None", context |-> NoCtx]

\* the value of an operation that returns none
NoRet == [tag |-> "none", id |-> 0, count |-> 0, ptrs |-> <<>>]

\* The running state of one operation on thread t: the thread's stack, the
\* address space, the native calls issued so far, and how the operation stands:
\* "run", "err" (an Err is being returned) or "panic"; the driver's state and
\* the value the operation returns.
Start(t) ==
  [stack |-> stack[t], mem |-> mem, calls |-> <<>>, st |-> "run", logged |-> FALSE,
   driver |-> driver, ret |-> NoRet]

\* The n-th native call of an operation fails iff n \in fail.
Fails(r, fail) == (Len(r.calls) + 1) \in fail

\* the native calls that wait for the work of a context and so report its
\* device-side fault
DeviceWork == {"cuCtxSynchronize"}

\* A native call is issued: its name, the context that owns the resource it
\* works on, the context that is current when it is issued, whether the
\* driver reports success, and those of its arguments that are recorded.
NativeCall(r, fn, owner) ==
  [r EXCEPT !.calls = Append(@, [fn |-> fn, ctx |-> owner, top |-> Top(r.stack),
                                 ok |-> TRUE, args |-> <<>>])]

\* the arguments the native call just issued was given
Given(r, args) == [r EXCEPT !.calls[Len(r.calls)].args = args]

\* the native call just issued reports an error
Refused(r) == [r EXCEPT !.calls[Len(r.calls)].ok = FALSE]

\* ffi_call!/ffi_new!: issue the call and turn its status into a Result
ffi_call(r, fn, owner, fail) ==
  IF Fails(r, fail) \/ (fn \in DeviceWork /\ owner \in r.driver.faulted)
  THEN [Refused(NativeCall(r, fn, owner)) EXCEPT !.st = "err"]
  ELSE NativeCall(r, fn, owner)

\* Result::expect
expect(r) == IF r.st = "err" THEN [r EXCEPT !.st = "panic"] ELSE r

\* if let Err(e) = ... { log::error!(...) }
log_error(r) == IF r.st = "err" THEN [r EXCEPT !.st = "run", !.logged = TRUE] ELSE r

(* ------------------------------ Device -------------------------------- *)

\* (mutant) a call_once that does not wait for a closure that is running
Once_call_once_racy(once) ==
  CASE once \in {"new", "running"} -> "closure"
    [] once = "done" -> "proceed"
    [] once = "poisoned" -> "panic"

\* Once::call_once, by the state of the Once: the first caller runs the
\* closure, a caller that finds the closure running waits for it, a caller
\* that finds it done goes on, and a caller that finds the Once poisoned by
\* a panic of the closure panics.
Once_call_once(once) ==
  CASE once = "new" -> "closure"
    [] once = "running" -> "wait"
    [] once = "done" -> "proceed"
    [] once = "poisoned" -> "panic"

\* the closure of Device::init: the native init, whose failure panics
Device_init_closure(r, fail) ==
  LET booted == expect(ffi_call([r EXCEPT !.driver.inits = @ + 1], "cuInit", NoCtx, fail))
  IN [booted EXCEPT !.driver.once = IF booted.st = "run" THEN "done" ELSE "poisoned"]

\* Device::init, when no other thread is inside it
Device_init(r, fail) ==
  CASE Once_call_once(r.driver.once) = "proceed" -> r
    [] Once_call_once(r.driver.once) = "panic" -> [r EXCEPT !.st = "panic"]
    [] OTHER -> Device_init_closure(r, fail)

\* Device::get_count
Device_get_count(r, fail) ==
  LET ready == Device_init(r, fail)
      counted == ffi_call(ready, "cuDeviceGetCount", NoCtx, fail)
  IN IF ready.st # "run" THEN ready
     ELSE IF counted.st # "run" THEN counted
     ELSE [counted EXCEPT !.ret = [NoRet EXCEPT !.tag = "Count", !.count = r.driver.count]]

\* (mutant) Device::nth that lets the index equal to the count through
Device_nth_inclusive(r, id, fail) ==
  LET counted == Device_get_count(r, fail)
      got == ffi_call(counted, "cuDeviceGet", NoCtx, fail)
  IN IF counted.st # "run" THEN counted
     ELSE IF id > counted.ret.count
     THEN [counted EXCEPT !.st = "err",
             !.ret = [NoRet EXCEPT !.tag = "DeviceNotFound", !.id = id,
                                   !.count = counted.ret.count]]
     ELSE IF got.st # "run" THEN [got EXCEPT !.ret = NoRet]
     ELSE [got EXCEPT !.ret = [NoRet EXCEPT !.tag = "Device", !.id = id]]

\* Device::nth
Device_nth(r, id, fail) ==
  LET counted == Device_get_count(r, fail)
      got == ffi_call(counted, "cuDeviceGet", NoCtx, fail)
  IN IF counted.st # "run" THEN counted
     ELSE IF id >= counted.ret.count
     THEN [counted EXCEPT !.st = "err",
             !.ret = [NoRet EXCEPT !.tag = "DeviceNotFound", !.id = id,
                                   !.count = counted.ret.count]]
     ELSE IF got.st # "run" THEN [got EXCEPT !.ret = NoRet]
     ELSE [got EXCEPT !.ret = [NoRet EXCEPT !.tag = "Device", !.id = id]]

(* ---------------------- Context::push / Context::pop ------------------ *)

\* (mutant) a pop that compares the top with the handle and leaves it on the stack
Context_pop_keeps(r, c, fail) ==
  IF Fails(r, fail) \/ r.stack = <<>> \/ Top(r.stack) # c
  THEN [NativeCall(r, "cuCtxPopCurrent_v2", c) EXCEPT !.st = "panic"]
  ELSE NativeCall(r, "cuCtxPopCurrent_v2", c)

\* (mutant) a guard that is built without its context being pushed
ContextGuard_guard_context_nopush(r, c, fail) ==
  IF Fails(r, fail)
  THEN [Refused(NativeCall(r, "cuCtxPushCurrent_v2", c)) EXCEPT !.st = "panic"]
  ELSE r

Context_push(r, c, fail) ==
  IF Fails(r, fail)
  THEN [Refused(NativeCall(r, "cuCtxPushCurrent_v2", c)) EXCEPT !.st = "panic"]
  ELSE [NativeCall(r, "cuCtxPushCurrent_v2", c) EXCEPT !.stack = Append(@, c)]

\* (mutant) a pop without the comparison of the popped handle
Context_pop_unchecked(r, c, fail) ==
  IF Fails(r, fail) \/ r.stack = <<>>
  THEN [Refused(NativeCall(r, "cuCtxPopCurrent_v2", c)) EXCEPT !.st = "panic"]
  ELSE [NativeCall(r, "cuCtxPopCurrent_v2", c) EXCEPT !.stack = Front(r.stack)]

\* The native pop fails on an empty stack; a popped handle that differs from
\* the Context's own handle fails the assertion after the pop has happened.
Context_pop(r, c, fail) ==
  IF Fails(r, fail) \/ r.stack = <<>>
  THEN [Refused(NativeCall(r, "cuCtxPopCurrent_v2", c)) EXCEPT !.st = "panic"]
  ELSE IF Top(r.stack) # c
  THEN [NativeCall(r, "cuCtxPopCurrent_v2", c) EXCEPT
          !.stack = Front(r.stack), !.st = "panic"]
  ELSE [NativeCall(r, "cuCtxPopCurrent_v2", c) EXCEPT !.stack = Front(r.stack)]

\* ContextGuard::guard_context: the guard exists iff the result still runs
ContextGuard_guard_context(r, c, fail) == Context_push(r, c, fail)

\* Drop for ContextGuard
ContextGuard_drop(r, c, fail) == Context_pop(r, c, fail)

\* contexted_call!/contexted_new!: the native call under a guard on c
contexted_call(r, c, fn, fail) ==
  LET g == ContextGuard_guard_context(r, c, fail) IN
  IF g.st # "run" THEN g
  ELSE ContextGuard_drop(ffi_call(g, fn, c, fail), c, fail)

(* ------------------------------ Context ------------------------------- *)

\* Drop for Context: a failure of the native destroy is logged.  The driver
\* pops a context that is destroyed while current on the calling thread.
Context_drop(r, c, fail) ==
  IF Fails(r, fail)
  THEN [Refused(NativeCall(r, "cuCtxDestroy_v2", c)) EXCEPT !.logged = TRUE]
  ELSE [NativeCall(r, "cuCtxDestroy_v2", c) EXCEPT
          !.stack = IF Top(r.stack) = c THEN Front(r.stack) ELSE r.stack,
          !.driver.faulted = @ \ {c}]

\* (mutant) a create that returns the new context while it is still current
Context_create_current(r, h, fail) ==
  LET made == ffi_call(r, "cuCtxCreate_v2", h, fail) IN
  IF made.st = "err" THEN expect(made)
  ELSE [made EXCEPT !.stack = Append(@, h), !.driver.faulted = @ \ {h},
                    !.ret = [NoRet EXCEPT !.tag = "Context", !.id = h]]

\* Context::create: the native create returns the fresh handle h and makes it
\* current; it is popped before create returns.  A panic in pop unwinds
\* through the Context value, which is dropped.
Context_create(r, h, fail) ==
  LET made == ffi_call(r, "cuCtxCreate_v2", h, fail)
      popped == Context_pop([made EXCEPT !.stack = Append(@, h),
                                         !.driver.faulted = @ \ {h}], h, fail)
  IN IF made.st = "err" THEN expect(made)
     ELSE IF popped.st = "panic" THEN Context_drop(popped, h, fail)
     ELSE [popped EXCEPT !.ret = [NoRet EXCEPT !.tag = "Context", !.id = h]]

\* Context::version: no guard, the handle is passed to the driver
Context_version(r, c, fail) ==
  expect(ffi_call(r, "cuCtxGetApiVersion", c, fail))

\* (mutant) a sync that logs the status of the native call and returns Ok
Context_sync_swallow(r, c, fail) ==
  LET g == ContextGuard_guard_context(r, c, fail) IN
  IF g.st # "run" THEN g
  ELSE ContextGuard_drop(log_error(ffi_call(g, "cuCtxSynchronize", c, fail)), c, fail)

\* Context::sync
Context_sync(r, c, fail) ==
  LET g == ContextGuard_guard_context(r, c, fail) IN
  IF g.st # "run" THEN g
  ELSE ContextGuard_drop(ffi_call(g, "cuCtxSynchronize", c, fail), c, fail)

(* ------------------------------ Module -------------------------------- *)

\* the native module handles
ModuleIds == {1}

\* enum Instruction and the native loader each variant goes to
Instruction == {"PTX", "Cubin", "PTXFile", "CubinFile"}
Loader(data) == IF data \in {"PTX", "Cubin"} THEN "cuModuleLoadData" ELSE "cuModuleLoad"

\* Module::load
Module_load(r, c, data, fail) ==
  LET g == ContextGuard_guard_context(r, c, fail) IN
  IF g.st # "run" THEN g
  ELSE ContextGuard_drop(ffi_call(g, Loader(data), c, fail), c, fail)

\* (mutant) get_kernel whose guard is released on the Ok path only
Module_get_kernel_leaks(r, m, fail) ==
  LET g == ContextGuard_guard_context(r, m.context, fail)
      got == ffi_call(g, "cuModuleGetFunction", m.context, fail)
  IN IF g.st # "run" THEN g
     ELSE IF got.st # "run" THEN got
     ELSE ContextGuard_drop(got, m.context, fail)

\* Module::get_kernel
Module_get_kernel(r, m, fail) ==
  LET g == ContextGuard_guard_context(r, m.context, fail) IN
  IF g.st # "run" THEN g
  ELSE ContextGuard_drop(ffi_call(g, "cuModuleGetFunction", m.context, fail),
                         m.context, fail)

\* A place is a piece of storage: its address and what it holds.  The i-th
\* field of an argument tuple is a place outside the argument storage that
\* holds a reference, which is the address of the argument.
FieldAddr(i) == HeapSize + i - 1
Field(i, to) == [addr |-> FieldAddr(i), val |-> to]

\* *reference: the place a reference points at
Deref(reference, m) == [addr |-> reference, val |-> m[reference]]

\* DeviceSend::as_ptr(&self): self as *const Self as *const u8
DeviceSend_as_ptr(self) == self.addr

\* (mutant) kernel_params that takes the address of each field of the tuple
kernel_params_of_fields(tuple, m) ==
  [i \in 1..Len(tuple) |-> DeviceSend_as_ptr(tuple[i])]

\* Arguments::kernel_params of a tuple of references: self.i is the reference
\* the i-th field holds, and as_ptr is called on the argument it points at
kernel_params(tuple, m) ==
  [i \in 1..Len(tuple) |-> DeviceSend_as_ptr(Deref(tuple[i].val, m))]

\* the shared-memory bytes and the stream launch passes: none, and the null
\* pointer, which is the default stream
NoSharedMemory == 0
NullStream == 0

\* the arguments of the native launch after the kernel, the grid and the block
LaunchArgs(shared, stream, params) ==
  [sharedMemBytes |-> shared, hStream |-> stream, kernelParams |-> params]

\* (mutant) a launch that does not make the kernel's context current
Launchable_launch_unguarded(r, m, tuple, traps, fail) ==
  LET kernel == Module_get_kernel(r, m, fail)
      params == kernel_params(tuple, kernel.mem)
      queued == Given(ffi_call(kernel, "cuLaunchKernel", m.context, fail),
                      LaunchArgs(NoSharedMemory, NullStream, params))
  IN IF kernel.st # "run" THEN kernel
     ELSE IF queued.st = "run" /\ traps
     THEN [queued EXCEPT !.driver.faulted = @ \cup {m.context}]
     ELSE queued

\* Launchable::launch with the arguments `tuple`: the kernel's context is its
\* module's context.  The grid and the block go to the native launch as they
\* came.  The native launch enqueues the kernel; a kernel whose logic signals
\* a failure (`traps`) leaves a device-side fault on its context.
Launchable_launch(r, m, tuple, traps, fail) ==
  LET kernel == Module_get_kernel(r, m, fail)
      g == ContextGuard_guard_context(kernel, m.context, fail)
      params == kernel_params(tuple, g.mem)
      queued == Given(ffi_call(g, "cuLaunchKernel", m.context, fail),
                      LaunchArgs(NoSharedMemory, NullStream, params))
      ran == IF queued.st = "run" /\ traps
             THEN [queued EXCEPT !.driver.faulted = @ \cup {m.context}]
             ELSE queued
  IN IF kernel.st # "run" THEN kernel
     ELSE IF g.st # "run" THEN g
     ELSE ContextGuard_drop(ran, m.context, fail)

\* Drop for Module: no guard, and a failure of the unload panics
Module_drop(r, m, fail) ==
  expect(ffi_call(r, "cuModuleUnload", m.context, fail))

(* ------------------------------ Memory -------------------------------- *)

\* usize * usize: with overflow checks (a debug build) a product that does
\* not fit panics, without them (a release build) it wraps
UsizeModulus == 2^UsizeBits
Overflows(a, b) == a * b >= UsizeModulus
wrapping_mul(a, b) == (a * b) % UsizeModulus

\* the builds in which the product matters: only one that overflows tells
\* the two apart
OverflowChecks(size) == IF Overflows(size, SizeOfElem) THEN BOOLEAN ELSE {FALSE}

\* the number of cells an allocation of `bytes` bytes takes
Cells(bytes) == (bytes + SizeOfElem - 1) \div SizeOfElem

\* Memory::head_addr, byte_size, memory_type, try_get_context; Continuous::length
length(o) == o.size
head_addr(o) == o.ptr
byte_size(o) == wrapping_mul(o.size, SizeOfElem)
memory_type(o) == o.kind
try_get_context(o) == o.context

\* the cells [head, head + count) of a memory object
Extent(o) == {a \in Addr : o.ptr <= a /\ a < o.ptr + o.size}

\* the cells the native allocator has given to a memory object: those of its
\* byte size
Allocation(o) == {a \in Addr : o.ptr <= a /\ a < o.ptr + Cells(byte_size(o))}

\* the regions of `size` cells the native allocator can hand out
FreeRegions(size) ==
  {p \in Addr : /\ p + size <= HeapSize
                /\ \A o \in objects : \A a \in Allocation(o) : a < p \/ a >= p + size}

\* (mutant) PageLockedMemory::new without the check of the size
PageLockedMemory_new_unchecked(r, c, size, checks, fail) ==
  expect(contexted_call(r, c, "cuMemAllocHost_v2",
                        IF FreeRegions(size) = {} THEN fail \cup {2} ELSE fail))

\* PageLockedMemory::new.  The byte count size * size_of::<T>() is computed
\* under the guard: with overflow checks a product that does not fit panics
\* there, without them the wrapped product is what is allocated.  The native
\* allocation is the second call after the guard's push, and it fails when
\* no region is free.
PageLockedMemory_new(r, c, size, checks, fail) ==
  IF ~(size > 0) THEN [r EXCEPT !.st = "panic"]
  ELSE IF checks /\ Overflows(size, SizeOfElem)
  THEN LET g == ContextGuard_guard_context(r, c, fail) IN
       IF g.st # "run" THEN g
       ELSE ContextGuard_drop([g EXCEPT !.st = "panic"], c, fail)
  ELSE expect(contexted_call(r, c, "cuMemAllocHost_v2",
                IF FreeRegions(Cells(wrapping_mul(size, SizeOfElem))) = {}
                THEN fail \cup {2} ELSE fail))

\* Drop for PageLockedMemory
PageLockedMemory_drop(r, o, fail) ==
  log_error(contexted_call(r, o.context, "cuMemFreeHost", fail))

\* DeviceMemory::new
DeviceMemory_new(r, c, size, fail) ==
  IF ~(size > 0) THEN [r EXCEPT !.st = "panic"]
  ELSE expect(contexted_call(r, c, "cuMemAllocManaged",
                             IF FreeRegions(size) = {} THEN fail \cup {2} ELSE fail))

\* Drop for DeviceMemory
DeviceMemory_drop(r, o, fail) ==
  log_error(contexted_call(r, o.context, "cuMemFree_v2", fail))

\* the store *v = value on the elements i, i + 1, ... of a slice of n elements
RECURSIVE Fill(_, _, _, _, _)
Fill(m, p, i, n, value) ==
  IF i >= n THEN m ELSE Fill([m EXCEPT ![p + i] = value], p, i + 1, n, value)

\* (mutant) a set that leaves the last element as it is
PageLockedMemory_set_short(r, o, value) ==
  [r EXCEPT !.mem = Fill(r.mem, o.ptr, 0, o.size - 1, value)]

\* PageLockedMemory::set: iter_mut() goes through the slice of `size`
\* elements at `ptr`
PageLockedMemory_set(r, o, value) ==
  [r EXCEPT !.mem = Fill(r.mem, o.ptr, 0, o.size, value)]

\* An element-wise copy of n cells from s to d, in ascending order of index
RECURSIVE CopyUp(_, _, _, _, _)
CopyUp(m, d, s, i, n) ==
  IF i >= n THEN m ELSE CopyUp([m EXCEPT ![d + i] = m[s + i]], d, s, i + 1, n)

\* ... and in descending order
RECURSIVE CopyDown(_, _, _, _)
CopyDown(m, d, s, i) ==
  IF i <= 0 THEN m ELSE CopyDown([m EXCEPT ![d + i - 1] = m[s + i - 1]], d, s, i - 1)

\* (mutant) a copy that stops one element short
MemcpyResults_short(m, d, s, n) == {CopyUp(m, d, s, 0, n - 1)}

\* [T]::copy_from_slice and the native memcpy: on disjoint extents the two
\* orders agree; on overlapping extents the copy is undefined and either
\* order may be what the build does.
MemcpyResults(m, d, s, n) == {CopyUp(m, d, s, 0, n), CopyDown(m, d, s, n)}

\* (mutant) a copy through the slices that goes to the driver
copy_from_slice_native(r, dest, src) ==
  IF dest.size # src.size THEN {[r EXCEPT !.st = "panic"]}
  ELSE {[NativeCall(r, "cuMemcpy", NoCtx) EXCEPT !.mem = m] :
          m \in MemcpyResults(r.mem, dest.ptr, src.ptr, src.size)}

\* [T]::copy_from_slice panics when the two slices differ in length
copy_from_slice(r, dest, src) ==
  IF dest.size # src.size THEN {[r EXCEPT !.st = "panic"]}
  ELSE {[r EXCEPT !.mem = m] : m \in MemcpyResults(r.mem, dest.ptr, src.ptr, src.size)}

\* (mutant) a guard that is taken from dest only
GuardFor_dest_only(dest, src) == try_get_context(dest)

\* the context copy_to_host guards for a Device source
GuardFor(dest, src) ==
  IF try_get_context(dest) # NoCtx THEN try_get_context(dest) ELSE try_get_context(src)

\* the Device arm of copy_to_host, from the guard on: the results it can have
CopyDtoH(r, dest, src, fail) ==
  LET c == GuardFor(dest, src)
      g == IF c = NoCtx THEN r ELSE ContextGuard_guard_context(r, c, fail)
      sent == expect(ffi_call(g, "cuMemcpyDtoH_v2", c, fail))
  IN IF g.st # "run" THEN {g}
     ELSE {IF c = NoCtx THEN done ELSE ContextGuard_drop(done, c, fail) :
             done \in IF sent.st = "run"
                      THEN {[sent EXCEPT !.mem = m] :
                              m \in MemcpyResults(r.mem, dest.ptr, src.ptr, dest.size)}
                      ELSE {sent}}

\* (mutant) copy_to_host without the comparison of the byte sizes; of a
\* transfer between extents of two sizes only the guard and the native call
\* are kept, not what it writes
copy_to_host_any_size(r, dest, src, fail) ==
  IF ~(head_addr(dest) # head_addr(src)) THEN {[r EXCEPT !.st = "panic"]}
  ELSE IF memory_type(src) \in {"Host", "Registered", "PageLocked"}
  THEN copy_from_slice(r, dest, src)
  ELSE IF memory_type(src) = "Device"
  THEN IF /\ try_get_context(dest) # NoCtx
          /\ try_get_context(src) # NoCtx
          /\ ~(try_get_context(dest) = try_get_context(src))
       THEN {[r EXCEPT !.st = "panic"]}
       ELSE {[q EXCEPT !.mem = r.mem] : q \in CopyDtoH(r, dest, dest, fail)}
  ELSE {[r EXCEPT !.st = "panic"]}

\* (mutant) copy_to_host without the comparison of the head addresses
copy_to_host_same_head(r, dest, src, fail) ==
  IF ~(byte_size(dest) = byte_size(src)) THEN {[r EXCEPT !.st = "panic"]}
  ELSE IF memory_type(src) \in {"Host", "Registered", "PageLocked"}
  THEN copy_from_slice(r, dest, src)
  ELSE IF memory_type(src) = "Device"
  THEN IF /\ try_get_context(dest) # NoCtx
          /\ try_get_context(src) # NoCtx
          /\ ~(try_get_context(dest) = try_get_context(src))
       THEN {[r EXCEPT !.st = "panic"]}
       ELSE CopyDtoH(r, dest, src, fail)
  ELSE {[r EXCEPT !.st = "panic"]}

\* copy_to_host: the set of results the call can have
copy_to_host(r, dest, src, fail) ==
  IF ~(head_addr(dest) # head_addr(src)) THEN {[r EXCEPT !.st = "panic"]}
  ELSE IF ~(byte_size(dest) = byte_size(src)) THEN {[r EXCEPT !.st = "panic"]}
  ELSE IF memory_type(src) \in {"Host", "Registered", "PageLocked"}
  THEN copy_from_slice(r, dest, src)
  ELSE IF memory_type(src) = "Device"
  THEN IF /\ try_get_context(dest) # NoCtx
          /\ try_get_context(src) # NoCtx
          /\ ~(try_get_context(dest) = try_get_context(src))
       THEN {[r EXCEPT !.st = "panic"]}
       ELSE CopyDtoH(r, dest, src, fail)
  ELSE {[r EXCEPT !.st = "panic"]}

\* PageLockedMemory::copy_from
PageLockedMemory_copy_from(r, dest, src, fail) == copy_to_host(r, dest, src, fail)

(* ------------------------------ frame --------------------------------- *)

\* a guard and a module that are absent
NoGuard == [ctx |-> NoCtx, before |-> <<>>]
NoModule == [module |-> 0, context |-> NoCtx]

\* the operands of an operation that takes none
NoArgs ==
  [ctx |-> NoCtx, size |-> 0, dest |-> NoObj, src |-> NoObj, guard |-> NoGuard,
   module |-> NoModule, id |-> 0, value |-> 0, traps |-> FALSE, tuple |-> <<>>,
   index |-> 0]

\* (mutant) one stack of current contexts for the whole process
Leave_one_stack(op, t, args, r) ==
  /\ stack' = [u \in Threads |-> r.stack]
  /\ mem' = r.mem
  /\ panicked' = [panicked EXCEPT ![t] = (r.st = "panic")]
  /\ driver' = r.driver
  /\ last' = [op |-> op, thread |-> t, args |-> args, st |-> r.st,
              calls |-> r.calls, logged |-> r.logged, before |-> stack[t],
              heap |-> mem, ret |-> r.ret]

\* What every operation of thread t leaves behind: the thread's stack and the
\* address space as the operation left them, and the record of the operation
\* (its operands, its result, its native calls, and the stack and the address
\* space it started from, the value it returned), and the driver's state.
\* A panic ends the thread.
Leave(op, t, args, r) ==
  /\ stack' = [stack EXCEPT ![t] = r.stack]
  /\ mem' = r.mem
  /\ panicked' = [panicked EXCEPT ![t] = (r.st = "panic")]
  /\ driver' = r.driver
  /\ last' = [op |-> op, thread |-> t, args |-> args, st |-> r.st,
              calls |-> r.calls, logged |-> r.logged, before |-> stack[t],
              heap |-> mem, ret |-> r.ret]

\* ... of an operation that is taken as one step
Finish(op, t, args, r) == Leave(op, t, args, r) /\ UNCHANGED <<pc, arcs>>

\* a thread outside every call
Idle == [at |-> "idle", op |-> "none", id |-> 0, held |-> {}]

\* a Context no Arc refers to
NoArc == [handles |-> 0, unfreed |-> FALSE, destroys |-> 0]

\* thread t has left the call it was in and holds what it held
Returned(p) == [Idle EXCEPT !.held = p.held]

\* thread t can start an operation: it has not panicked and is in no call
Ready(t) == ~panicked[t] /\ pc[t].at = "idle"

\* the driver once a Device has been obtained: initialised, one device, no
\* fault on any context
Booted == [once |-> "done", inits |-> 1, count |-> 1, faulted |-> {}]

\* before any operation
NoLast ==
  [op |-> "init", thread |-> "t1", args |-> NoArgs, st |-> "run", calls |-> <<>>,
   logged |-> FALSE, before |-> <<>>, heap |-> mem, ret |-> NoRet]

\* the Contexts that some guard, module or memory object still refers to
Borrowed ==
  UNION {{guards[t][i].ctx : i \in 1..Len(guards[t])} : t \in Threads}
    \cup {m.context : m \in modules} \cup {o.context : o \in objects}

\* The failure patterns of an operation that issues at most n native calls.
\* No operation outlives two failures: the first makes it return or unwind,
\* and the second can only be that of the guard's pop or of a destroy on the
\* way out.
FailSets(n) == {f \in SUBSET (1..n) : Cardinality(f) <= 2}

\* ... of an operation that is one native call under a guard: when the push
\* fails no other call is issued
GuardedFailSets == {f \in FailSets(3) : 1 \in f => f = {1}}

Init ==
  /\ stack = [t \in Threads |-> <<>>]
  /\ guards = [t \in Threads |-> <<>>]
  /\ panicked = [t \in Threads |-> FALSE]
  /\ nested = [t \in Threads |-> TRUE]
  /\ driver = Booted
  /\ contexts = {}
  /\ modules = {}
  /\ objects = {}
  /\ mem = [a \in Addr |-> 0]
  /\ last = NoLast
  /\ pc = [t \in Threads |-> Idle]
  /\ arcs = [c \in Ctxs |-> NoArc]

(* --------------------------- guard operations ------------------------- *)

\* ContextGuard::guard_context(ctx) on thread t
GuardAcquire(t, c) ==
  /\ Ready(t) /\ c \in contexts /\ Len(guards[t]) < MaxDepth
  /\ \E fail \in FailSets(1) :
       LET r == ContextGuard_guard_context(Start(t), c, fail) IN
       /\ Finish("guard_context", t, [NoArgs EXCEPT !.ctx = c], r)
       /\ guards' = [guards EXCEPT ![t] =
                       IF r.st = "run"
                       THEN Append(@, [ctx |-> c, before |-> stack[t]]) ELSE @]
  /\ UNCHANGED <<contexts, modules, objects, nested>>

\* the i-th live guard of thread t goes out of scope
GuardRelease(t, i) ==
  /\ Ready(t) /\ i \in 1..Len(guards[t])
  /\ \E fail \in FailSets(1) :
       LET r == ContextGuard_drop(Start(t), guards[t][i].ctx, fail) IN
       Finish("guard_drop", t,
              [NoArgs EXCEPT !.ctx = guards[t][i].ctx, !.guard = guards[t][i],
                             !.index = i], r)
  /\ guards' = [guards EXCEPT ![t] = Remove(@, i)]
  /\ nested' = [nested EXCEPT ![t] = @ /\ i = Len(guards[t])]
  /\ UNCHANGED <<contexts, modules, objects>>

(* -------------------------- Context operations ------------------------ *)

\* Device::create_context
Create(t) ==
  /\ Ready(t)
  /\ \E h \in Ctxs \ contexts : \E fail \in FailSets(3) :
       LET r == Context_create(Start(t), h, fail) IN
       /\ Finish("create", t, [NoArgs EXCEPT !.ctx = h], r)
       /\ contexts' = IF r.st = "run" THEN contexts \cup {h} ELSE contexts
  /\ UNCHANGED <<guards, modules, objects, nested>>

\* the Context value is dropped once nothing refers to it
DropContext(t, c) ==
  /\ Ready(t) /\ c \in contexts \ Borrowed
  /\ \E fail \in FailSets(1) :
       Finish("drop_context", t, [NoArgs EXCEPT !.ctx = c],
              Context_drop(Start(t), c, fail))
  /\ contexts' = contexts \ {c}
  /\ UNCHANGED <<guards, modules, objects, nested>>

Version(t, c) ==
  /\ Ready(t) /\ c \in contexts
  /\ \E fail \in FailSets(1) :
       Finish("version", t, [NoArgs EXCEPT !.ctx = c],
              Context_version(Start(t), c, fail))
  /\ UNCHANGED <<guards, contexts, modules, objects, nested>>

Sync(t, c) ==
  /\ Ready(t) /\ c \in contexts
  /\ \E fail \in FailSets(3) :
       Finish("sync", t, [NoArgs EXCEPT !.ctx = c], Context_sync(Start(t), c, fail))
  /\ UNCHANGED <<guards, contexts, modules, objects, nested>>

(* -------------------------- Module operations ------------------------- *)

Load(t, c) ==
  /\ Ready(t) /\ c \in contexts
  /\ \E id \in ModuleIds \ {m.module : m \in modules} :
     \E data \in Instruction : \E fail \in FailSets(3) :
       LET r == Module_load(Start(t), c, data, fail)
           m == [module |-> id, context |-> c]
       IN /\ Finish("load", t, [NoArgs EXCEPT !.ctx = c, !.module = m], r)
          /\ modules' = IF r.st = "run" THEN modules \cup {m} ELSE modules
  /\ UNCHANGED <<guards, contexts, objects, nested>>

GetKernel(t, m) ==
  /\ Ready(t) /\ m \in modules
  /\ \E fail \in FailSets(3) :
       Finish("get_kernel", t, [NoArgs EXCEPT !.ctx = m.context, !.module = m],
              Module_get_kernel(Start(t), m, fail))
  /\ UNCHANGED <<guards, contexts, modules, objects, nested>>

\* module.launch(grid, block, args) of a kernel that traps or does not
Launch(t, m, tuple, traps) ==
  /\ Ready(t) /\ m \in modules
  /\ \E fail \in FailSets(6) :
       Finish("launch", t,
              [NoArgs EXCEPT !.ctx = m.context, !.module = m, !.traps = traps,
                             !.tuple = tuple],
              Launchable_launch(Start(t), m, tuple, traps, fail))
  /\ UNCHANGED <<guards, contexts, modules, objects, nested>>

DropModule(t, m) ==
  /\ Ready(t) /\ m \in modules
  /\ \E fail \in FailSets(1) :
       Finish("drop_module", t, [NoArgs EXCEPT !.ctx = m.context, !.module = m],
              Module_drop(Start(t), m, fail))
  /\ modules' = modules \ {m}
  /\ UNCHANGED <<guards, contexts, objects, nested>>

(* -------------------------- Memory operations ------------------------- *)

\* PageLockedMemory::new / DeviceMemory::new with a request of `size` elements
New(t, kind, c, size) ==
  /\ Ready(t) /\ c \in contexts /\ Cardinality(objects) < MaxObjects
  /\ \E checks \in OverflowChecks(size) : \E fail \in GuardedFailSets :
       LET r == IF kind = "PageLocked"
                THEN PageLockedMemory_new(Start(t), c, size, checks, fail)
                ELSE DeviceMemory_new(Start(t), c, size, fail)
       IN IF r.st = "run"
          THEN \E p \in FreeRegions(Cells(wrapping_mul(size, SizeOfElem))) :
                 LET o == [ptr |-> p, size |-> size, kind |-> kind, context |-> c] IN
                 /\ Finish("new", t, [NoArgs EXCEPT !.ctx = c, !.size = size, !.dest = o], r)
                 /\ objects' = objects \cup {o}
          ELSE /\ Finish("new", t,
                         [NoArgs EXCEPT !.ctx = c, !.size = size, !.dest.kind = kind], r)
               /\ objects' = objects
  /\ UNCHANGED <<guards, contexts, modules, nested>>

\* a memory object is dropped
DropMemory(t, o) ==
  /\ Ready(t) /\ o \in objects
  /\ \E fail \in GuardedFailSets :
       Finish("drop_memory", t, [NoArgs EXCEPT !.ctx = o.context, !.dest = o],
              IF o.kind = "PageLocked"
              THEN PageLockedMemory_drop(Start(t), o, fail)
              ELSE DeviceMemory_drop(Start(t), o, fail))
  /\ objects' = objects \ {o}
  /\ UNCHANGED <<guards, contexts, modules, nested>>

\* the failure patterns that matter to a copy: only a Device source reaches
\* native calls
CopyFails(src) == IF memory_type(src) = "Device" THEN FailSets(3) ELSE {{}}

\* dest.copy_from(&src)
CopyFrom(t, dest, src) ==
  /\ Ready(t)
  /\ \E fail \in CopyFails(src) :
     \E r \in PageLockedMemory_copy_from(Start(t), dest, src, fail) :
       Finish("copy_from", t, [NoArgs EXCEPT !.dest = dest, !.src = src], r)
  /\ UNCHANGED <<guards, contexts, modules, objects, nested>>

\* mem.set(value) on a page-locked memory object
Set(t, o, value) ==
  /\ Ready(t) /\ o \in objects /\ o.kind = "PageLocked"
  /\ Finish("set", t, [NoArgs EXCEPT !.dest = o, !.value = value],
            PageLockedMemory_set(Start(t), o, value))
  /\ UNCHANGED <<guards, contexts, modules, objects, nested>>

\* Arguments::kernel_params(&tuple)
KernelParams(t, tuple) ==
  /\ Ready(t)
  /\ Finish("kernel_params", t, [NoArgs EXCEPT !.tuple = tuple],
            [Start(t) EXCEPT !.ret = [NoRet EXCEPT !.tag = "Params",
                                                   !.ptrs = kernel_params(tuple, mem)]])
  /\ UNCHANGED <<guards, contexts, modules, objects, nested>>

(* -------------------------- Device operations ------------------------- *)

GetCount(t) ==
  /\ Ready(t)
  /\ \E fail \in FailSets(2) :
       Finish("get_count", t, NoArgs, Device_get_count(Start(t), fail))
  /\ UNCHANGED <<guards, contexts, modules, objects, nested>>

Nth(t, id) ==
  /\ Ready(t)
  /\ \E fail \in FailSets(3) :
       Finish("nth", t, [NoArgs EXCEPT !.id = id], Device_nth(Start(t), id, fail))
  /\ UNCHANGED <<guards, contexts, modules, objects, nested>>

(* --------------- Device operations, native call by native call -------- *)

\* what a step inside a Device call leaves alone
DeviceFrame == UNCHANGED <<guards, contexts, modules, objects, nested, arcs>>

\* thread t calls Device::get_count() or Device::nth(id) and reaches the
\* call_once of Device::init
Enter(t, op, id) ==
  /\ Ready(t)
  /\ Leave("enter", t, [NoArgs EXCEPT !.id = id], Start(t))
  /\ UNCHANGED arcs
  /\ pc' = [pc EXCEPT ![t] = [@ EXCEPT !.at = "call_once", !.op = op, !.id = id]]
  /\ DeviceFrame

\* call_once: t takes the Once and will run the closure, or finds it done
\* and goes on, or finds it poisoned and panics; while the closure runs on
\* another thread t waits
CallOnce(t) ==
  /\ ~panicked[t] /\ pc[t].at = "call_once"
  /\ LET todo == Once_call_once(driver.once)
         r == [Start(t) EXCEPT !.st = IF todo = "panic" THEN "panic" ELSE "run",
                               !.driver.once = IF todo = "closure" THEN "running" ELSE @]
     IN /\ todo # "wait"
        /\ Leave("call_once", t, [NoArgs EXCEPT !.id = pc[t].id], r)
        /\ pc' = [pc EXCEPT ![t] = CASE todo = "closure" -> [@ EXCEPT !.at = "closure"]
                                     [] todo = "proceed" -> [@ EXCEPT !.at = "cuDeviceGetCount"]
                                     [] OTHER -> Returned(@)]
  /\ DeviceFrame

\* the closure of the Once runs on t: the native init
Closure(t) ==
  /\ ~panicked[t] /\ pc[t].at = "closure"
  /\ \E fail \in FailSets(1) :
       LET r == Device_init_closure(Start(t), fail) IN
       /\ Leave("init", t, [NoArgs EXCEPT !.id = pc[t].id], r)
       /\ pc' = [pc EXCEPT ![t] = IF r.st = "run" THEN [@ EXCEPT !.at = "cuDeviceGetCount"]
                                   ELSE Returned(@)]
  /\ DeviceFrame

\* get_count after init: the native count; get_count returns it, and nth
\* returns its Err, or DeviceNotFound, or goes on to the native device-get
Count(t) ==
  /\ ~panicked[t] /\ pc[t].at = "cuDeviceGetCount"
  /\ \E fail \in FailSets(1) :
       LET counted == ffi_call(Start(t), "cuDeviceGetCount", NoCtx, fail)
           found == pc[t].op = "nth" /\ counted.st = "run" /\ pc[t].id < driver.count
           r == IF counted.st # "run" THEN counted
                ELSE IF pc[t].op = "get_count"
                THEN [counted EXCEPT !.ret = [NoRet EXCEPT !.tag = "Count",
                                                           !.count = driver.count]]
                ELSE IF found THEN counted
                ELSE [counted EXCEPT !.st = "err",
                        !.ret = [NoRet EXCEPT !.tag = "DeviceNotFound", !.id = pc[t].id,
                                              !.count = driver.count]]
       IN /\ Leave(pc[t].op, t, [NoArgs EXCEPT !.id = pc[t].id], r)
          /\ pc' = [pc EXCEPT ![t] = IF found THEN [@ EXCEPT !.at = "cuDeviceGet"]
                                      ELSE Returned(@)]
  /\ DeviceFrame

\* nth after the range check: the native device-get; t keeps the Device in
\* place of the one it held
Get(t) ==
  /\ ~panicked[t] /\ pc[t].at = "cuDeviceGet"
  /\ \E fail \in FailSets(1) :
       LET got == ffi_call(Start(t), "cuDeviceGet", NoCtx, fail)
           r == IF got.st # "run" THEN got
                ELSE [got EXCEPT !.ret = [NoRet EXCEPT !.tag = "Device", !.id = pc[t].id]]
       IN /\ Leave("nth", t, [NoArgs EXCEPT !.id = pc[t].id], r)
          /\ pc' = [pc EXCEPT ![t] = [Returned(@) EXCEPT
                       !.held = IF r.st = "run" THEN {pc[t].id} ELSE @]]
  /\ DeviceFrame

\* device.create_context() on a Device some thread has obtained
CreateContext(t) ==
  /\ \E u \in Threads : pc[u].held # {}
  /\ Create(t)

(* ------------------------ shared Context handles ---------------------- *)

\* Arc::strong_count of the Arc<Context> of c: the handles the program holds
\* and the one inside each memory object of c
strong_count(c) == arcs[c].handles + Cardinality({o \in objects : o.context = c})

\* Drop for Arc<Context>: the handle dropped last drops the Context, whose
\* native destroy the driver may refuse
Arc_drop(r, c, refused) ==
  IF strong_count(c) = 1
  THEN Context_drop(r, c, IF refused THEN {Len(r.calls) + 1} ELSE {})
  ELSE r

\* the native calls of fn on c that r has issued
CallsOn(r, fn, c) ==
  {k \in 1..Len(r.calls) : r.calls[k].fn = fn /\ r.calls[k].ctx = c}

\* what the drop of one handle of c leaves of the Arc: r is the whole
\* operation, and `unfreed` tells that a memory object went without its free
Released(r, c, unfreed) ==
  [arcs EXCEPT ![c] = [handles |-> @.handles, unfreed |-> @.unfreed \/ unfreed,
                       destroys |-> @.destroys + Cardinality(CallsOn(r, "cuCtxDestroy_v2", c))]]

\* Arc::new(device.create_context())
CreateShared(t) ==
  /\ Ready(t)
  /\ \E h \in Ctxs \ contexts : \E fail \in FailSets(3) :
       LET r == Context_create(Start(t), h, fail) IN
       /\ Leave("create", t, [NoArgs EXCEPT !.ctx = h], r)
       /\ contexts' = IF r.st = "run" THEN contexts \cup {h} ELSE contexts
       /\ arcs' = [arcs EXCEPT ![h] = IF r.st = "run" THEN [NoArc EXCEPT !.handles = 1]
                                      ELSE NoArc]
  /\ UNCHANGED <<guards, modules, objects, nested, pc>>

\* Arc::clone of a handle of c
CloneShared(t, c) ==
  /\ Ready(t) /\ arcs[c].handles \in 1..(MaxHandles - 1)
  /\ Leave("clone", t, [NoArgs EXCEPT !.ctx = c], Start(t))
  /\ arcs' = [arcs EXCEPT ![c].handles = @ + 1]
  /\ UNCHANGED <<guards, contexts, modules, objects, nested, pc>>

\* a handle of c the program holds is dropped
DropShared(t, c) ==
  /\ Ready(t) /\ arcs[c].handles > 0
  /\ \E refused \in BOOLEAN :
       LET r == Arc_drop(Start(t), c, refused) IN
       /\ Leave("drop_handle", t, [NoArgs EXCEPT !.ctx = c], r)
       /\ arcs' = [Released(r, c, FALSE) EXCEPT ![c].handles = @ - 1]
  /\ contexts' = IF strong_count(c) = 1 THEN contexts \ {c} ELSE contexts
  /\ UNCHANGED <<guards, modules, objects, nested, pc>>

\* PageLockedMemory::new(context, size): the handle is moved into the memory
\* object, or dropped by the unwinding when new panics
NewShared(t, c, size) ==
  /\ Ready(t) /\ arcs[c].handles > 0 /\ Cardinality(objects) < MaxObjects
  /\ \E checks \in OverflowChecks(size) : \E fail \in GuardedFailSets :
     \E refused \in BOOLEAN :
       LET made == PageLockedMemory_new(Start(t), c, size, checks, fail) IN
       IF made.st = "run"
       THEN \E p \in FreeRegions(Cells(wrapping_mul(size, SizeOfElem))) :
              LET o == [ptr |-> p, size |-> size, kind |-> "PageLocked", context |-> c] IN
              /\ Leave("new", t, [NoArgs EXCEPT !.ctx = c, !.size = size, !.dest = o], made)
              /\ objects' = objects \cup {o}
              /\ contexts' = contexts
              /\ arcs' = [arcs EXCEPT ![c].handles = @ - 1]
       ELSE LET r == Arc_drop(made, c, refused) IN
            /\ Leave("new", t, [NoArgs EXCEPT !.ctx = c, !.size = size,
                                              !.dest.kind = "PageLocked"], r)
            /\ objects' = objects
            /\ contexts' = IF strong_count(c) = 1 THEN contexts \ {c} ELSE contexts
            /\ arcs' = [Released(r, c, FALSE) EXCEPT ![c].handles = @ - 1]
  /\ UNCHANGED <<guards, modules, nested, pc>>

\* a page-locked memory object is dropped: Drop for PageLockedMemory, then
\* its fields, the handle among them, also when the drop unwinds from a panic
FreeShared(t, o) ==
  /\ Ready(t) /\ o \in objects
  /\ \E fail \in GuardedFailSets : \E refused \in BOOLEAN :
       LET freed == PageLockedMemory_drop(Start(t), o, fail)
           r == Arc_drop(freed, o.context, refused)
       IN /\ Leave("drop_memory", t, [NoArgs EXCEPT !.ctx = o.context, !.dest = o], r)
          /\ arcs' = Released(r, o.context, CallsOn(r, "cuMemFreeHost", o.context) = {})
  /\ objects' = objects \ {o}
  /\ contexts' = IF strong_count(o.context) = 1 THEN contexts \ {o.context} ELSE contexts
  /\ UNCHANGED <<guards, modules, nested, pc>>

(* --------------------------- specifications -------------------------- *)

\* Contexts, guards and modules on one thread.  No memory object exists, no
\* operation here reads or writes the address space, and the kernels
\* launched run to their end.
Next ==
  \/ \E c \in Ctxs : GuardAcquire("t1", c)
  \/ \E i \in 1..MaxDepth : GuardRelease("t1", i)
  \/ Create("t1")
  \/ \E c \in Ctxs : DropContext("t1", c)
  \/ \E c \in Ctxs : Version("t1", c)
  \/ \E c \in Ctxs : Sync("t1", c)
  \/ \E c \in Ctxs : Load("t1", c)
  \/ \E m \in modules : GetKernel("t1", m)
  \/ \E m \in modules : Launch("t1", m, <<>>, FALSE)
  \/ \E m \in modules : DropModule("t1", m)

Spec == Init /\ [][Next]_vars

\* The devices of a machine with any number of them, asked for from two
\* threads of a process that has not touched the driver yet.
InitDevice ==
  /\ stack = [t \in Threads |-> <<>>]
  /\ guards = [t \in Threads |-> <<>>]
  /\ panicked = [t \in Threads |-> FALSE]
  /\ nested = [t \in Threads |-> TRUE]
  /\ \E n \in 0..MaxDevices : driver = [once |-> "new", inits |-> 0, count |-> n, faulted |-> {}]
  /\ contexts = {}
  /\ modules = {}
  /\ objects = {}
  /\ mem = [a \in Addr |-> 0]
  /\ last = NoLast
  /\ pc = [t \in Threads |-> Idle]
  /\ arcs = [c \in Ctxs |-> NoArc]

NextDevice ==
  \/ \E t \in Threads : GetCount(t)
  \/ \E t \in Threads : \E id \in DeviceIds : Nth(t, id)

SpecDevice == InitDevice /\ [][NextDevice]_vars

\* The same process with the calls of its two threads interleaved native call
\* by native call, and contexts created on the Devices obtained.
NextOnce ==
  \/ \E t \in Threads : Enter(t, "get_count", 0)
  \/ \E t \in Threads : \E id \in DeviceIds : Enter(t, "nth", id)
  \/ \E t \in Threads : CallOnce(t)
  \/ \E t \in Threads : Closure(t)
  \/ \E t \in Threads : Count(t)
  \/ \E t \in Threads : Get(t)
  \/ \E t \in Threads : CreateContext(t)

SpecOnce == InitDevice /\ [][NextOnce]_vars

\* Two threads that acquire guards on the live Contexts, the same or not,
\* and release them last-acquired-first, interleaved native call by native
\* call.
InitThreads ==
  /\ stack = [t \in Threads |-> <<>>]
  /\ guards = [t \in Threads |-> <<>>]
  /\ panicked = [t \in Threads |-> FALSE]
  /\ nested = [t \in Threads |-> TRUE]
  /\ driver = Booted
  /\ contexts = Ctxs
  /\ modules = {}
  /\ objects = {}
  /\ mem = [a \in Addr |-> 0]
  /\ last = NoLast
  /\ pc = [t \in Threads |-> Idle]
  /\ arcs = [c \in Ctxs |-> NoArc]

NextThreads ==
  \/ \E t \in Threads : \E c \in Ctxs : GuardAcquire(t, c)
  \/ \E t \in Threads : GuardRelease(t, Len(guards[t]))

SpecThreads == InitThreads /\ [][NextThreads]_vars

\* the requests for an allocation on a shared Context: none, which is
\* rejected, and one element
SharedSizes == {0, 1}

\* Contexts behind shared handles, created, cloned and dropped, and the
\* page-locked memory allocated on them.  What a thread that panicked held
\* is dropped by the other thread.
NextShared ==
  \/ \E t \in Threads : CreateShared(t)
  \/ \E t \in Threads : \E c \in Ctxs : CloneShared(t, c)
  \/ \E t \in Threads : \E c \in Ctxs : DropShared(t, c)
  \/ \E t \in Threads : \E c \in Ctxs : \E size \in SharedSizes : NewShared(t, c, size)
  \/ \E t \in Threads : \E o \in objects : FreeShared(t, o)

SpecShared == Init /\ [][NextShared]_vars

\* the scopes of guards an operation is called in: none, or one
Scopes == {<<>>} \cup {<<c>> : c \in Ctxs}

\* the argument tuples of the kernels launched: none, one or two references
LaunchTuples == {<<>>} \cup {<<Field(1, a)>> : a \in Addr} \cup {<<Field(1, 0), Field(2, 0)>>}

\* Modules and kernels on live contexts, from inside or outside a guard's
\* scope; a kernel launched may signal a failure of its logic.
InitLaunch ==
  /\ \E s \in Scopes :
       /\ stack = [t \in Threads |-> IF t = "t1" THEN s ELSE <<>>]
       /\ guards = [t \in Threads |->
                      IF t = "t1"
                      THEN [i \in 1..Len(s) |-> [ctx |-> s[i], before |-> SubSeq(s, 1, i - 1)]]
                      ELSE <<>>]
  /\ panicked = [t \in Threads |-> FALSE]
  /\ nested = [t \in Threads |-> TRUE]
  /\ driver = Booted
  /\ contexts = Ctxs
  /\ modules = {}
  /\ objects = {}
  /\ mem = [a \in Addr |-> 0]
  /\ last = NoLast
  /\ pc = [t \in Threads |-> Idle]
  /\ arcs = [c \in Ctxs |-> NoArc]

NextLaunch ==
  \/ \E c \in Ctxs : Load("t1", c)
  \/ \E m \in modules : \E tuple \in LaunchTuples : \E traps \in BOOLEAN :
       Launch("t1", m, tuple, traps)
  \/ \E c \in Ctxs : Sync("t1", c)
  \/ \E m \in modules : DropModule("t1", m)

SpecLaunch == InitLaunch /\ [][NextLaunch]_vars

\* the requests for an allocation
Sizes == 0..MaxLen

\* Memory objects on live contexts, from outside any guard's scope or from
\* inside the scope of a guard on the first Context: the Contexts being
\* interchangeable, the memory object is on the guarded Context or on another.
InitMemory ==
  /\ \E s \in {<<>>, <<1>>} :
       /\ stack = [t \in Threads |-> IF t = "t1" THEN s ELSE <<>>]
       /\ guards = [t \in Threads |->
                      IF t = "t1"
                      THEN [i \in 1..Len(s) |-> [ctx |-> s[i], before |-> SubSeq(s, 1, i - 1)]]
                      ELSE <<>>]
  /\ panicked = [t \in Threads |-> FALSE]
  /\ nested = [t \in Threads |-> TRUE]
  /\ driver = Booted
  /\ contexts = Ctxs
  /\ modules = {}
  /\ objects = {}
  /\ mem = [a \in Addr |-> 0]
  /\ last = NoLast
  /\ pc = [t \in Threads |-> Idle]
  /\ arcs = [c \in Ctxs |-> NoArc]

NextMemory ==
  \/ \E kind \in {"PageLocked", "Device"} : \E c \in Ctxs : \E size \in Sizes :
       New("t1", kind, c, size)
  \/ \E o \in objects : DropMemory("t1", o)

SpecMemory == InitMemory /\ [][NextMemory]_vars

\* the smallest element count whose byte size does not fit a usize
HugeSize == UsizeModulus \div SizeOfElem + 1

\* Page-locked memory of every size asked for, one that does not fit
\* included, in a build with and in a build without overflow checks.
NextAlloc ==
  \/ \E c \in Ctxs : \E size \in Sizes \cup {HugeSize} : New("t1", "PageLocked", c, size)
  \/ \E o \in objects : DropMemory("t1", o)

SpecAlloc == InitMemory /\ [][NextAlloc]_vars

\* The memory operands copy_from can be given: any extent of the address
\* space under any kind tag.  Plain host memory reports no Context and may be
\* an empty slice; page-locked, registered and array memory report one; a
\* Device source may or may not.
Views ==
  {o \in [ptr : Addr, size : 0..MaxLen, kind : MemoryType, context : {NoCtx} \cup Ctxs] :
     /\ o.ptr + o.size <= HeapSize
     /\ o.kind = "Host" => o.context = NoCtx
     /\ o.kind # "Host" => o.size > 0
     /\ o.kind \in {"PageLocked", "Registered", "Array"} => o.context # NoCtx}

\* copy_to_host works only when dest is host memory
HostViews == {o \in Views : o.kind \in {"Host", "Registered", "PageLocked"}}

\* One copy_from call, on every pair of operands, from every content of the
\* address space, from inside or outside a guard's scope.
InitCopy ==
  /\ \E s \in Scopes :
       /\ stack = [t \in Threads |-> IF t = "t1" THEN s ELSE <<>>]
       /\ guards = [t \in Threads |->
                      IF t = "t1"
                      THEN [i \in 1..Len(s) |-> [ctx |-> s[i], before |-> SubSeq(s, 1, i - 1)]]
                      ELSE <<>>]
  /\ panicked = [t \in Threads |-> FALSE]
  /\ nested = [t \in Threads |-> TRUE]
  /\ driver = Booted
  /\ contexts = Ctxs
  /\ modules = {}
  /\ objects = {}
  /\ mem \in [Addr -> Vals]
  /\ last = NoLast
  /\ pc = [t \in Threads |-> Idle]
  /\ arcs = [c \in Ctxs |-> NoArc]

NextCopy ==
  /\ last.op = "init"
  /\ \E dest \in HostViews : \E src \in Views : CopyFrom("t1", dest, src)

SpecCopy == InitCopy /\ [][NextCopy]_vars

\* The tuples of references of every arity from 0 to MaxArity: the i-th
\* field refers to the argument stored at base + (i - 1) * step, so that two
\* fields may refer to one argument.
Tuples ==
  {[i \in 1..n |-> Field(i, (base + (i - 1) * step) % HeapSize)] :
     n \in 0..MaxArity, base \in Addr, step \in Addr}

\* One call of kernel_params, on every tuple, with any content of the
\* argument storage.
InitArgs ==
  /\ stack = [t \in Threads |-> <<>>]
  /\ guards = [t \in Threads |-> <<>>]
  /\ panicked = [t \in Threads |-> FALSE]
  /\ nested = [t \in Threads |-> TRUE]
  /\ driver = Booted
  /\ contexts = {}
  /\ modules = {}
  /\ objects = {}
  /\ mem \in [Addr -> Vals]
  /\ last = NoLast
  /\ pc = [t \in Threads |-> Idle]
  /\ arcs = [c \in Ctxs |-> NoArc]

NextArgs ==
  /\ last.op = "init"
  /\ \E tuple \in Tuples : KernelParams("t1", tuple)

SpecArgs == InitArgs /\ [][NextArgs]_vars

\* the page-locked memory objects there can be
PageLockedViews == {o \in Views : o.kind = "PageLocked"}

\* One or two page-locked memory objects, which share no cell, holding any
\* content; every value is set on them, any number of times.
InitSet ==
  /\ \E s \in Scopes :
       /\ stack = [t \in Threads |-> IF t = "t1" THEN s ELSE <<>>]
       /\ guards = [t \in Threads |->
                      IF t = "t1"
                      THEN [i \in 1..Len(s) |-> [ctx |-> s[i], before |-> SubSeq(s, 1, i - 1)]]
                      ELSE <<>>]
  /\ panicked = [t \in Threads |-> FALSE]
  /\ nested = [t \in Threads |-> TRUE]
  /\ driver = Booted
  /\ contexts = Ctxs
  /\ modules = {}
  /\ \E o \in PageLockedViews : \E p \in PageLockedViews :
       /\ p = o \/ Extent(o) \cap Extent(p) = {}
       /\ objects = {o, p}
  /\ mem \in [Addr -> Vals]
  /\ last = NoLast
  /\ pc = [t \in Threads |-> Idle]
  /\ arcs = [c \in Ctxs |-> NoArc]

NextSet == \E o \in objects : \E value \in Vals : Set("t1", o, value)

SpecSet == InitSet /\ [][NextSet]_vars

(* ------------------------------ claims -------------------------------- *)

\* C1: when a thread that has kept to last-acquired-first-released releases
\* its most recent guard and the release completes, the thread's stack is
\* exactly the stack the guard was acquired on.
C1_GuardRoundTrip ==
  \A t \in Threads :
    (last.op = "guard_drop" /\ last.thread = t /\ last.st = "run" /\ nested[t])
      => stack[t] = last.args.guard.before

\* C1 witness: a guard acquired on a non-empty stack has been released and
\* the stack is back to that content.
C1_Witness ==
  /\ last.op = "guard_drop" /\ last.st = "run" /\ nested[last.thread]
  /\ last.args.guard.before # <<>>
  /\ last.before = Append(last.args.guard.before, last.args.guard.ctx)
  /\ stack[last.thread] = last.args.guard.before

\* C2 as stated: the Context of every live guard is the current context of
\* its thread, also while guards acquired later are alive.
C2_EveryLiveGuardCurrent ==
  \A t \in Threads : \A i \in 1..Len(guards[t]) :
    ~panicked[t] => Top(stack[t]) = guards[t][i].ctx

\* C2 amended: on a thread that has kept to last-acquired-first-released,
\* the Context of the most recently acquired live guard is the current
\* context, and the Context of every live guard is on the stack at the depth
\* it was pushed at.
C2_InnermostGuardCurrent ==
  \A t \in Threads :
    (~panicked[t] /\ nested[t]) =>
      /\ guards[t] # <<>> => Top(stack[t]) = guards[t][Len(guards[t])].ctx
      /\ \A i \in 1..Len(guards[t]) :
           /\ Len(guards[t][i].before) < Len(stack[t])
           /\ stack[t][Len(guards[t][i].before) + 1] = guards[t][i].ctx

\* C2 witness: two live guards on different Contexts; the inner one's is
\* current, the outer one's is below it.
C2_Witness ==
  /\ ~panicked["t1"] /\ nested["t1"] /\ Len(guards["t1"]) = 2
  /\ guards["t1"][1].ctx # guards["t1"][2].ctx
  /\ Top(stack["t1"]) = guards["t1"][2].ctx

\* the native calls of the operations C3 lists
GuardedCalls ==
  {"cuCtxSynchronize", "cuCtxGetApiVersion", "cuMemcpyDtoH_v2", "cuModuleLoadData",
   "cuModuleLoad", "cuModuleGetFunction", "cuLaunchKernel", "cuModuleUnload",
   "cuMemFreeHost", "cuCtxDestroy_v2"}

\* C3 as stated: each of those native calls, when it works on a resource of
\* a Context, is issued while that Context is on top of the calling thread's
\* stack.
C3_NativeCallsUnderGuard ==
  \A k \in 1..Len(last.calls) :
    (last.calls[k].fn \in GuardedCalls /\ last.calls[k].ctx # NoCtx)
      => last.calls[k].top = last.calls[k].ctx

\* C4 as stated: the drop of a Context, a Module or a memory object never
\* ends in a panic.
C4_DropNeverPanics ==
  last.op \in {"drop_context", "drop_module", "drop_memory"} => last.st # "panic"

\* the operands of the last copy_from
CopyDest == last.args.dest
CopySrc == last.args.src
Aborted == last.st = "panic"
\* no element was written, no context was pushed, no native call was issued
Untouched == mem = last.heap /\ last.calls = <<>> /\ stack[last.thread] = last.before

\* C5 as stated: copy_from aborts, before dest is written, whenever both
\* operands report a Context and the two differ, whatever the source's kind.
C5_CrossContextAborts ==
  (/\ last.op = "copy_from"
   /\ try_get_context(CopyDest) # NoCtx /\ try_get_context(CopySrc) # NoCtx
   /\ try_get_context(CopyDest) # try_get_context(CopySrc))
    => (Aborted /\ mem = last.heap)

\* C6 as stated: copy_from with an Array source returns an Err to the caller
\* instead of panicking, and leaves dest unchanged.
C6_ArrayIsRecoverable ==
  (last.op = "copy_from" /\ memory_type(CopySrc) = "Array")
    => (last.st = "err" /\ mem = last.heap)

\* C7: copy_from between operands of differing byte size aborts with no
\* element written, no context pushed and no native call issued, for every
\* source kind.
C7_SizeMismatchAborts ==
  (last.op = "copy_from" /\ byte_size(CopyDest) # byte_size(CopySrc))
    => (Aborted /\ Untouched)

\* C7 witness: a Device source of another size and another head address was
\* refused.
C7_Witness ==
  /\ last.op = "copy_from" /\ memory_type(CopySrc) = "Device"
  /\ byte_size(CopyDest) # byte_size(CopySrc)
  /\ head_addr(CopyDest) # head_addr(CopySrc)
  /\ Aborted /\ Untouched

\* C8 as stated: copy_from aborts, with nothing written, whenever the two
\* extents share a cell.
C8_OverlapAborts ==
  (last.op = "copy_from" /\ Extent(CopyDest) \cap Extent(CopySrc) # {})
    => (Aborted /\ Untouched)

\* C8 amended: copy_from aborts, with nothing written, no context pushed and
\* no native call issued, whenever dest and src have the same head address.
C8_SameHeadAborts ==
  (last.op = "copy_from" /\ head_addr(CopyDest) = head_addr(CopySrc))
    => (Aborted /\ Untouched)

\* C8 witness: the two operands are one and the same extent, and the copy
\* was refused.
C8_Witness ==
  /\ last.op = "copy_from"
  /\ head_addr(CopyDest) = head_addr(CopySrc) /\ CopyDest.size = CopySrc.size
  /\ CopyDest.size > 0
  /\ Aborted /\ Untouched

C10_ZeroSizedNewAborts ==
  [][(last'.op = "new" /\ last'.args.size = 0)
       => /\ last'.st = "panic"
          /\ last'.calls = <<>>
          /\ UNCHANGED <<stack, objects, contexts, mem>>]_vars

\* C10 witness: a zero-sized page-locked request was refused inside a guard's
\* scope, with a memory object alive.
C10_Witness ==
  /\ last.op = "new" /\ last.args.size = 0 /\ last.args.dest.kind = "PageLocked"
  /\ last.st = "panic" /\ last.calls = <<>>
  /\ last.before # <<>> /\ stack[last.thread] = last.before
  /\ objects # {}

\* every native call of the last operation reported success
AllOk == \A k \in 1..Len(last.calls) : last.calls[k].ok

\* C11: when the driver is initialised and every native call Device::nth(i)
\* issues succeeds, it returns the Device of index i for every i < count; for
\* every i >= count it returns the DeviceNotFound error carrying i and the
\* count, and has not issued the native device-get call.
C11_NthInRange ==
  (last.op = "nth" /\ AllOk /\ driver.once = "done") =>
    IF last.args.id < driver.count
    THEN /\ last.st = "run"
         /\ last.ret = [NoRet EXCEPT !.tag = "Device", !.id = last.args.id]
         /\ last.calls[Len(last.calls)].fn = "cuDeviceGet"
    ELSE /\ last.st = "err"
         /\ last.ret = [NoRet EXCEPT !.tag = "DeviceNotFound", !.id = last.args.id,
                                     !.count = driver.count]
         /\ \A k \in 1..Len(last.calls) : last.calls[k].fn # "cuDeviceGet"

\* C11 witness: the index equal to the count of a machine with devices was
\* refused with the index and the count.
C11_Witness ==
  /\ last.op = "nth" /\ last.args.id = driver.count /\ driver.count > 0
  /\ last.st = "err" /\ last.ret.tag = "DeviceNotFound"
  /\ last.ret.id = last.args.id /\ last.ret.count = driver.count

\* C12: once a launch has returned Ok for a kernel whose logic signals a
\* failure, no sync() of the kernel's Context reports success: it returns an
\* Err, unless the push or the pop of its guard fails, which is a panic.
C12_KernelFaultSurfaces ==
  (last.op = "sync" /\ last.args.ctx \in driver.faulted) =>
    /\ last.st # "run"
    /\ last.st = "panic" =>
         \E k \in 1..Len(last.calls) :
           /\ ~last.calls[k].ok
           /\ last.calls[k].fn \in {"cuCtxPushCurrent_v2", "cuCtxPopCurrent_v2"}

\* C12 witness: the sync() of a Context with a trapped kernel has returned an
\* Err from the native synchronize, issued under the guard.
C12_Witness ==
  /\ last.op = "sync" /\ last.args.ctx \in driver.faulted /\ last.st = "err"
  /\ Len(last.calls) = 3 /\ last.calls[2].fn = "cuCtxSynchronize"
  /\ ~last.calls[2].ok /\ last.calls[1].ok /\ last.calls[3].ok

\* C13: when Context::create returns, the calling thread's stack is as it was
\* before the call: the native create has put the new context on top, the
\* next native call has popped it, and the handle returned is the handle that
\* was on top when the pop was issued.
C13_CreateLeavesStack ==
  (last.op = "create" /\ last.st = "run") =>
    /\ stack[last.thread] = last.before
    /\ Len(last.calls) = 2
    /\ last.calls[1].fn = "cuCtxCreate_v2" /\ last.calls[1].top = Top(last.before)
    /\ last.calls[2].fn = "cuCtxPopCurrent_v2" /\ last.calls[2].top = last.ret.id
    /\ last.ret.tag = "Context" /\ last.ret.id \in contexts

\* C13 witness: a Context was created inside the scope of a guard on another
\* Context, which is current again.
C13_Witness ==
  /\ last.op = "create" /\ last.st = "run" /\ last.before # <<>>
  /\ Top(stack[last.thread]) # last.ret.id
  /\ stack[last.thread] = last.before

\* C14: set(value) on a page-locked memory object returns with every index in
\* [0, length) holding value; the object keeps its head address and its
\* length, every cell outside of it keeps its content, and no native call is
\* issued.
C14_SetFillsEveryIndex ==
  [][last'.op = "set" =>
       LET o == last'.args.dest IN
       /\ last'.st = "run" /\ last'.calls = <<>>
       /\ \A i \in 0..(o.size - 1) : mem'[head_addr(o) + i] = last'.args.value
       /\ \A a \in Addr \ Extent(o) : mem'[a] = mem[a]
       /\ o \in objects /\ objects' = objects]_vars

\* C14 witness: a set has changed both elements of a two-element object next
\* to another object.
C14_Witness ==
  /\ last.op = "set" /\ last.args.dest.size = 2 /\ Cardinality(objects) = 2
  /\ \A a \in Extent(last.args.dest) :
       mem[a] = last.args.value /\ last.heap[a] # last.args.value

\* C15: kernel_params on a tuple of n references, for every n from 0 to 12,
\* returns exactly n addresses in the order of the tuple; the i-th is the
\* address of the storage of the argument the i-th reference points at, and
\* not the address of the field that holds the reference.  Nothing is
\* written and no native call is issued.
C15_ParamsAreArgumentAddresses ==
  last.op = "kernel_params" =>
    LET tuple == last.args.tuple
        ptrs == last.ret.ptrs
    IN /\ Len(ptrs) = Len(tuple) /\ Len(tuple) \in 0..12
       /\ \A i \in 1..Len(tuple) :
            /\ ptrs[i] = tuple[i].val
            /\ ptrs[i] # tuple[i].addr
            /\ mem[ptrs[i]] = last.heap[tuple[i].val]
       /\ mem = last.heap /\ last.calls = <<>> /\ last.st = "run"

\* C15 witness: a tuple of 12 references to arguments that differ in address
\* and in value, the first of which holds a value that is not its address.
C15_Witness ==
  /\ last.op = "kernel_params" /\ Len(last.args.tuple) = 12
  /\ Len(last.ret.ptrs) = 12
  /\ last.ret.ptrs[1] # last.ret.ptrs[2]
  /\ mem[last.ret.ptrs[1]] # mem[last.ret.ptrs[2]]
  /\ mem[last.ret.ptrs[1]] # last.ret.ptrs[1]

\* C16 as stated: a page-locked memory object allocated with n > 0 elements
\* has length() = n and byte_size() = n * w, for as long as it lives; 12
\* elements of 4 bytes give 48.
C16_ByteSizeIsProduct ==
  /\ byte_size([NoObj EXCEPT !.size = 12]) = 48
  /\ (last.op = "new" /\ last.st = "run") => length(last.args.dest) = last.args.size
  /\ \A o \in objects :
       o.kind = "PageLocked" => length(o) > 0 /\ byte_size(o) = length(o) * SizeOfElem

\* the native calls of the last operation with the name fn
CallsOf(fn) == {k \in 1..Len(last.calls) : last.calls[k].fn = fn}

\* C17: when sync, Module::load, Module::get_kernel or launch returns, with Ok
\* or with the error of its native call, every guard it acquired has been
\* released: the pushes and the pops are as many, and the calling thread's
\* stack is as it was before the operation.
C17_GuardReleasedOnEveryExit ==
  (last.op \in {"sync", "load", "get_kernel", "launch"} /\ last.st \in {"run", "err"}) =>
    /\ stack[last.thread] = last.before
    /\ CallsOf("cuCtxPushCurrent_v2") # {}
    /\ Cardinality(CallsOf("cuCtxPushCurrent_v2")) = Cardinality(CallsOf("cuCtxPopCurrent_v2"))
    /\ last.calls[Len(last.calls)].fn = "cuCtxPopCurrent_v2"

\* C17 witness: a launch inside the scope of a guard on another Context has
\* returned the error of the native launch, and that Context is current again.
C17_Witness ==
  /\ last.op = "launch" /\ last.st = "err" /\ Len(last.calls) = 6
  /\ last.calls[5].fn = "cuLaunchKernel" /\ ~last.calls[5].ok
  /\ last.before # <<>> /\ Top(last.before) # last.args.ctx
  /\ stack[last.thread] = last.before

\* the last operation released a guard while a guard acquired after it on the
\* same thread was alive
OutOfOrderRelease ==
  last.op = "guard_drop" /\ last.args.index <= Len(guards[last.thread])

\* C18 as stated: every release of a guard that is not the most recently
\* acquired live guard of its thread ends in a panic.
C18_OutOfOrderAlwaysPanics == OutOfOrderRelease => last.st = "panic"

\* C18 amended: a release out of order whose native pop succeeds ends in a
\* panic exactly when the handle on top of the thread's stack differs from
\* the guard's Context; the top of the stack has been popped either way.
C18_OutOfOrderPanicsOnOtherContext ==
  (OutOfOrderRelease /\ AllOk) =>
    /\ last.st = "panic" <=> Top(last.before) # last.args.guard.ctx
    /\ stack[last.thread] = Front(last.before)

\* C18 witness: of two live guards on different Contexts the first one was
\* released; the pop succeeded, gave the other Context, and panicked.
C18_Witness ==
  /\ OutOfOrderRelease /\ AllOk /\ last.st = "panic"
  /\ Len(last.before) = 2 /\ last.before[1] = last.args.guard.ctx
  /\ last.before[2] # last.args.guard.ctx
  /\ stack[last.thread] = <<last.args.guard.ctx>>

\* the last operation is a copy_from with a Device source that has passed
\* the checks of the head addresses, the byte sizes and the Contexts
DeviceTransfer ==
  /\ last.op = "copy_from" /\ memory_type(CopySrc) = "Device"
  /\ head_addr(CopyDest) # head_addr(CopySrc)
  /\ byte_size(CopyDest) = byte_size(CopySrc)
  /\ \/ try_get_context(CopyDest) = NoCtx
     \/ try_get_context(CopySrc) = NoCtx
     \/ try_get_context(CopyDest) = try_get_context(CopySrc)

\* C19: in a copy_from with a Device source, when neither operand reports a
\* Context the native transfer is the only native call; otherwise the
\* Context both report, or the one that exactly one reports, is pushed first,
\* is current when the transfer is issued, and is popped after it.  When
\* copy_from returns the stack is as it was before.
C19_TransferUnderResolvedGuard ==
  DeviceTransfer =>
    LET d == try_get_context(CopyDest)
        s == try_get_context(CopySrc)
    IN /\ (d = NoCtx /\ s = NoCtx) =>
            /\ Len(last.calls) = 1 /\ last.calls[1].fn = "cuMemcpyDtoH_v2"
            /\ stack[last.thread] = last.before
       /\ (d # NoCtx \/ s # NoCtx) =>
            /\ last.calls[1].fn = "cuCtxPushCurrent_v2"
            /\ last.calls[1].ctx = IF d # NoCtx THEN d ELSE s
            /\ last.calls[1].ok =>
                 /\ Len(last.calls) = 3
                 /\ last.calls[2].fn = "cuMemcpyDtoH_v2"
                 /\ last.calls[2].top = last.calls[1].ctx
                 /\ last.calls[3].fn = "cuCtxPopCurrent_v2"
                 /\ last.calls[3].ctx = last.calls[1].ctx
       /\ last.st = "run" => (AllOk /\ stack[last.thread] = last.before)

\* C19 witness: only the Device source reports a Context; the copy, called
\* inside the scope of a guard on another Context, ran under the source's
\* Context and has returned with that other Context current.
C19_Witness ==
  /\ DeviceTransfer /\ last.st = "run"
  /\ try_get_context(CopyDest) = NoCtx /\ try_get_context(CopySrc) # NoCtx
  /\ last.before # <<>> /\ Top(last.before) # try_get_context(CopySrc)
  /\ last.calls[2].top = try_get_context(CopySrc)
  /\ stack[last.thread] = last.before

\* C20: a copy_from with a source of kind Host, Registered or PageLocked
\* issues no native call, so it pushes no context and starts no native
\* transfer, and the calling thread's stack and its guards are as before.
C20_HostCopyWithoutDevice ==
  [][(last'.op = "copy_from"
        /\ memory_type(last'.args.src) \in {"Host", "Registered", "PageLocked"})
       => /\ last'.calls = <<>>
          /\ UNCHANGED <<stack, guards, contexts, driver>>]_vars

\* C20 witness: a copy between page-locked memory of two Contexts, called
\* inside the scope of a guard, has changed dest and has touched nothing else.
C20_Witness ==
  /\ last.op = "copy_from" /\ last.st = "run"
  /\ memory_type(CopySrc) = "PageLocked" /\ memory_type(CopyDest) = "PageLocked"
  /\ last.calls = <<>> /\ mem # last.heap
  /\ last.before # <<>> /\ stack[last.thread] = last.before

\* C21: a launch issues its native calls in a fixed order: the three calls of
\* get_kernel (push, cuModuleGetFunction, pop), the push of the guard on the
\* kernel's Context, then the one native launch, given shared-memory bytes 0,
\* the default stream and the addresses of the arguments, then the pop of the
\* guard.  The native launch is issued with the kernel's Context current, a
\* launch that returns Ok has issued it, and none is issued when a native
\* call of get_kernel fails.
C21_LaunchFollowsFixedOrder ==
  last.op = "launch" =>
    LET c == last.args.ctx
        tuple == last.args.tuple
        launches == CallsOf("cuLaunchKernel")
        resolved == Len(last.calls) >= 3 /\ \A k \in 1..3 : last.calls[k].ok
    IN /\ Cardinality(launches) <= 1
       /\ ~resolved => launches = {}
       /\ last.st = "run" => launches # {}
       /\ \A k \in launches :
            /\ k = 5 /\ resolved
            /\ last.calls[1].fn = "cuCtxPushCurrent_v2" /\ last.calls[1].ctx = c
            /\ last.calls[2].fn = "cuModuleGetFunction" /\ last.calls[2].top = c
            /\ last.calls[3].fn = "cuCtxPopCurrent_v2"
            /\ last.calls[4].fn = "cuCtxPushCurrent_v2" /\ last.calls[4].ctx = c
            /\ last.calls[4].ok
            /\ last.calls[k].top = c
            /\ last.calls[k].args.sharedMemBytes = 0
            /\ last.calls[k].args.hStream = NullStream
            /\ last.calls[k].args.kernelParams = [i \in 1..Len(tuple) |-> tuple[i].val]
            /\ Len(last.calls) = 6 /\ last.calls[6].fn = "cuCtxPopCurrent_v2"

\* C21 witness: a launch with two arguments, called inside the scope of a
\* guard on another Context, has issued the native launch as its fifth native
\* call with the kernel's Context current, and has returned Ok.
C21_Witness ==
  /\ last.op = "launch" /\ last.st = "run" /\ Len(last.args.tuple) = 2
  /\ last.before # <<>> /\ Top(last.before) # last.args.ctx
  /\ CallsOf("cuLaunchKernel") = {5} /\ last.calls[5].top = last.args.ctx
  /\ Len(last.calls[5].args.kernelParams) = 2

\* the native calls the step just taken has issued
Issued(fn) == {k \in 1..Len(last'.calls) : last'.calls[k].fn = fn}

\* C22: with the calls of get_count and nth of two threads interleaved in
\* every way, the native init is never invoked a second time; every other
\* native call (count, device-get, context create, context pop) is issued
\* when the Once is done, which is after the one native init has returned
\* success; and a step that invokes the native init invokes nothing else.
C22_InitOnceBeforeAnyCall ==
  [][/\ driver'.inits <= 1
     /\ driver'.inits = driver.inits + Cardinality(Issued("cuInit"))
     /\ last'.calls # <<>> =>
          IF Issued("cuInit") # {}
          THEN Len(last'.calls) = 1 /\ driver.once = "running"
          ELSE driver.once = "done" /\ driver.inits = 1]_vars

\* C22 witness: both threads are inside a call at once, past Device::init
\* and about to issue cuDeviceGetCount, and the native init has been invoked
\* once.
C22_Witness ==
  /\ pc["t1"].at = "cuDeviceGetCount" /\ pc["t2"].at = "cuDeviceGetCount"
  /\ driver.once = "done" /\ driver.inits = 1

\* C23: with two threads acquiring guards and releasing them
\* last-acquired-first, interleaved in every way, an acquire or a release on
\* one thread leaves the stack and the guards of the other thread as they
\* were; and a release whose native pop succeeds pops the Context of the
\* guard released, ends without a panic, and leaves its thread's stack as it
\* was when that guard was acquired.
C23_ThreadsDoNotInterfere ==
  [][\A t \in Threads :
       (last'.thread = t /\ last'.op \in {"guard_context", "guard_drop"}) =>
         /\ \A u \in Threads \ {t} : stack'[u] = stack[u] /\ guards'[u] = guards[u]
         /\ (last'.op = "guard_drop" /\ last'.calls[1].ok) =>
              /\ Top(stack[t]) = last'.args.guard.ctx
              /\ last'.st = "run"
              /\ stack'[t] = last'.args.guard.before]_vars

\* C23 witness: a thread has released its guard while the other thread holds
\* a guard on the same Context, acquired after it; its stack is empty again
\* and the other thread's stack still holds that Context.
C23_Witness ==
  /\ last.op = "guard_drop" /\ last.thread = "t1" /\ last.st = "run"
  /\ stack["t1"] = <<>> /\ guards["t1"] = <<>>
  /\ Len(guards["t2"]) = 1 /\ guards["t2"][1].ctx = last.args.guard.ctx
  /\ stack["t2"] = <<last.args.guard.ctx>>

\* C24 as stated: a Context is destroyed natively at most once, and when it
\* is, every memory object allocated on it is gone and has had its native
\* free; and every native free of a memory object is issued while its
\* Context is alive, not yet destroyed, and on top of the calling thread's
\* stack.
C24_DestroyOnceAfterEveryFree ==
  [][/\ \A c \in Ctxs : arcs'[c].destroys <= 1
     /\ \A k \in Issued("cuCtxDestroy_v2") :
          LET c == last'.calls[k].ctx IN
          /\ c \notin contexts'
          /\ \A o \in objects' : o.context # c
          /\ ~arcs'[c].unfreed
     /\ \A k \in Issued("cuMemFreeHost") :
          LET c == last'.calls[k].ctx IN
          /\ c \in contexts
          /\ last'.calls[k].top = c
          /\ \A j \in Issued("cuCtxDestroy_v2") : last'.calls[j].ctx = c => k < j]_vars

====
